---- MODULE Spec2Model ----
(***************************************************************************)
(* A model of Uri::Uri (RFC 3986 URI parser).  A Uri instance owns one     *)
(* Impl record; ParseFromString re-derives its fields from a string in     *)
(* the stages scheme, authority, fragment, query, path.                    *)
(*                                                                         *)
(* Strings are sequences of ASCII codes, so that the percent-decoding of   *)
(* the userinfo and the decimal accumulation of the port are arithmetic    *)
(* on the bytes, as in the code.  Indices and lengths given to find and    *)
(* substr are 0-based, as those of std::string.                            *)
(***************************************************************************)
EXTENDS Integers, Sequences, FiniteSets, TLC

\* ------------------------------------------------------------------------
\* Characters (ASCII codes) the code and its tests name
\* ------------------------------------------------------------------------
HASH == 35
PCT == 37
PLUS == 43
MINUS == 45
DOT == 46
SLASH == 47
D0 == 48
D1 == 49
D2 == 50
D3 == 51
D4 == 52
D5 == 53
D6 == 54
D9 == 57
COLON == 58
QMARK == 63
AT == 64
LA == 97
LH == 104
LZ == 122
LBRACE == 123

\* std::string::npos: larger than every index
npos == 2147483647

\* ------------------------------------------------------------------------
\* std::string operations
\* ------------------------------------------------------------------------
Min(S) == CHOOSE x \in S : \A y \in S : x <= y

\* s.find(pat, pos): the first index >= pos where pat occurs, or npos
find(s, pat, pos) ==
    LET hits == { i \in pos .. (Len(s) - Len(pat)) :
                      \A k \in 1 .. Len(pat) : s[i + k] = pat[k] }
    IN  IF hits = {} THEN npos ELSE Min(hits)

\* s.find_first_of(chars, pos): the first index >= pos of a byte of chars
find_first_of(s, chars, pos) ==
    LET hits == { i \in pos .. (Len(s) - 1) : s[i + 1] \in chars }
    IN  IF hits = {} THEN npos ELSE Min(hits)

\* s.substr(pos, n) for pos <= s.size(): at most n bytes from index pos
substr(s, pos, n) ==
    LET last == IF n > Len(s) - pos THEN Len(s) ELSE pos + n
    IN  SubSeq(s, pos + 1, last)

\* ------------------------------------------------------------------------
\* Character classes of the two regular expressions
\* ------------------------------------------------------------------------
IsDigit(c) == c \in 48 .. 57
IsAlpha(c) == c \in (65 .. 90) \cup (97 .. 122)
IsHexDigit(c) == c \in (48 .. 57) \cup (65 .. 70) \cup (97 .. 102)

\* [A-Za-z0-9\+\-\.]
IsSchemeTailChar(c) == IsAlpha(c) \/ IsDigit(c) \/ c \in {43, 45, 46}

\* [0-9A-Za-z\-\._~\!\$\&\'\(\)\*\+\,\;\:\=]
IsUserInfoChar(c) ==
    IsAlpha(c) \/ IsDigit(c)
        \/ c \in {45, 46, 95, 126, 33, 36, 38, 39, 40, 41, 42, 43, 44, 59, 58, 61}

\* regex_match(s, "^[A-Za-z][A-Za-z0-9\+\-\.]*$")
RECURSIVE SchemeTailMatch(_, _)
SchemeTailMatch(s, i) ==
    IF i > Len(s) THEN TRUE
    ELSE IF IsSchemeTailChar(s[i]) THEN SchemeTailMatch(s, i + 1)
    ELSE FALSE

\* the pattern without its leading [A-Za-z]: "^[A-Za-z0-9\+\-\.]*$"
SchemeRegexMatchAnyFirst(s) == SchemeTailMatch(s, 1)

SchemeRegexMatch(s) ==
    IF Len(s) = 0 THEN FALSE
    ELSE IF IsAlpha(s[1]) THEN SchemeTailMatch(s, 2)
    ELSE FALSE

\* regex_match(s, "^(?:(?=%)%[0-9A-Fa-f]{2}|[...])*$"): from byte i on, each
\* iteration of the group takes "%" and two hex digits, or one class byte
RECURSIVE UserInfoRegexFrom(_, _)
UserInfoRegexFrom(s, i) ==
    IF i > Len(s) THEN TRUE
    ELSE IF s[i] = PCT
         THEN IF i + 2 <= Len(s) /\ IsHexDigit(s[i + 1]) /\ IsHexDigit(s[i + 2])
              THEN UserInfoRegexFrom(s, i + 3)
              ELSE FALSE
    ELSE IF IsUserInfoChar(s[i]) THEN UserInfoRegexFrom(s, i + 1)
    ELSE FALSE

UserInfoRegexMatch(s) == UserInfoRegexFrom(s, 1)

\* ------------------------------------------------------------------------
\* std::stoi(str, NULL, 16), i.e. strtol in base 16: leading white space,
\* an optional sign, an optional "0x" that hex digits follow, then the
\* longest run of hex digits; no digit at all throws invalid_argument.
\* The code passes at most two bytes, so the int range is never exceeded.
\* ------------------------------------------------------------------------
IsSpace(c) == c \in (9 .. 13) \cup {32}

HexValue(c) ==
    IF c \in 48 .. 57 THEN c - 48
    ELSE IF c \in 65 .. 70 THEN c - 55
    ELSE c - 87

RECURSIVE SkipSpace(_, _)
SkipSpace(s, i) ==
    IF i <= Len(s) /\ IsSpace(s[i]) THEN SkipSpace(s, i + 1) ELSE i

\* the value of the hex digits of s from byte i on, after acc;
\* <<number of digits read, value>>
RECURSIVE HexRun(_, _, _, _)
HexRun(s, i, n, acc) ==
    IF i <= Len(s) /\ IsHexDigit(s[i])
    THEN HexRun(s, i + 1, n + 1, acc * 16 + HexValue(s[i]))
    ELSE <<n, acc>>

stoi16(str) ==
    LET i0 == SkipSpace(str, 1)
        signed == i0 <= Len(str) /\ str[i0] \in {PLUS, MINUS}
        neg == signed /\ str[i0] = MINUS
        i1 == IF signed THEN i0 + 1 ELSE i0
        prefixed == /\ i1 + 2 <= Len(str)
                    /\ str[i1] = D0
                    /\ str[i1 + 1] \in {88, 120}
                    /\ IsHexDigit(str[i1 + 2])
        i2 == IF prefixed THEN i1 + 2 ELSE i1
        run == HexRun(str, i2, 0, 0)
    IN  IF run[1] = 0
        THEN [ok |-> FALSE, value |-> 0]
        ELSE [ok |-> TRUE, value |-> IF neg THEN 0 - run[2] ELSE run[2]]

\* (char) of an int: its low eight bits, as a byte
ToChar(v) == ((v % 256) + 256) % 256

\* ------------------------------------------------------------------------
\* struct Uri::Impl
\* ------------------------------------------------------------------------
NewImpl ==
    [ scheme   |-> <<>>,
      userInfo |-> <<>>,
      host     |-> <<>>,
      hasPort  |-> FALSE,
      port     |-> 0,
      path     |-> <<>>,
      query    |-> <<>>,
      fragment |-> <<>> ]

\* ------------------------------------------------------------------------
\* Uri::parseScheme: whether the scheme is acceptable, the scheme and the
\* index where the rest starts (scheme and nextIdx are not written when
\* the candidate fails validation)
\* ------------------------------------------------------------------------
\* the colon taken for a path's only when "./" precedes it
parseSchemeAfterDotSlash(uri) ==
    LET schemeEnd == find(uri, <<COLON>>, 0)
        dotSegment == find(uri, <<DOT, SLASH>>, 0)
        schemeString == substr(uri, 0, schemeEnd)
    IN  IF schemeEnd = npos
        THEN [ok |-> TRUE, scheme |-> <<>>, nextIdx |-> 0]
        ELSE IF dotSegment # npos /\ dotSegment < schemeEnd
        THEN [ok |-> TRUE, scheme |-> <<>>, nextIdx |-> 0]
        ELSE IF ~SchemeRegexMatch(schemeString)
        THEN [ok |-> FALSE, scheme |-> <<>>, nextIdx |-> 0]
        ELSE [ok |-> TRUE, scheme |-> schemeString, nextIdx |-> schemeEnd + 1]

parseScheme(uri) ==
    LET schemeEnd == find(uri, <<COLON>>, 0)
        dotSegment == find(uri, <<SLASH>>, 0)
        schemeString == substr(uri, 0, schemeEnd)
    IN  IF schemeEnd = npos
        THEN [ok |-> TRUE, scheme |-> <<>>, nextIdx |-> 0]
        ELSE IF dotSegment # npos /\ dotSegment < schemeEnd
        THEN [ok |-> TRUE, scheme |-> <<>>, nextIdx |-> 0]
        ELSE IF ~SchemeRegexMatch(schemeString)
        THEN [ok |-> FALSE, scheme |-> <<>>, nextIdx |-> 0]
        ELSE [ok |-> TRUE, scheme |-> schemeString, nextIdx |-> schemeEnd + 1]

\* ------------------------------------------------------------------------
\* Uri::parseAuthority: the authority text and the index where the rest
\* starts
\* ------------------------------------------------------------------------
parseAuthority(uri) ==
    LET doubleForwardSlash == find(uri, <<SLASH, SLASH>>, 0)
        dotSegment == find(uri, <<SLASH>>, 0)
        found == find_first_of(uri, {SLASH, QMARK, HASH}, doubleForwardSlash + 2)
        authorityEnd == IF found = npos THEN Len(uri) ELSE found
    IN  IF doubleForwardSlash = npos
        THEN [authority |-> <<>>, nextIdx |-> 0]
        ELSE IF dotSegment # npos /\ dotSegment < doubleForwardSlash
        THEN [authority |-> <<>>, nextIdx |-> 0]
        ELSE [authority |-> substr(uri, doubleForwardSlash + 2, authorityEnd - 2),
              nextIdx |-> authorityEnd]

\* ------------------------------------------------------------------------
\* Uri::parseAuthorityComponents
\* ------------------------------------------------------------------------
\* The loop "while ((pctDelim = userInfo.find('%')) != npos)": each turn
\* searches the current text from its start, converts the two bytes after
\* the '%' with stoi and splices the byte in.  status is "ok", or the
\* exception that stoi or substr throws.
RECURSIVE ExtractPctEncoded(_)
ExtractPctEncoded(userInfo) ==
    LET pctDelim == find(userInfo, <<PCT>>, 0)
        conv == stoi16(substr(userInfo, pctDelim + 1, 2))
    IN  IF pctDelim = npos
        THEN [status |-> "ok", userInfo |-> userInfo]
        ELSE IF ~conv.ok
        THEN [status |-> "invalid_argument", userInfo |-> userInfo]
        ELSE IF pctDelim + 3 > Len(userInfo)
        THEN [status |-> "out_of_range", userInfo |-> userInfo]
        ELSE ExtractPctEncoded(substr(userInfo, 0, pctDelim)
                                   \o <<ToChar(conv.value)>>
                                   \o substr(userInfo, pctDelim + 3, npos))

\* The loop over the port text from byte i on.  port32bits is a uint32_t:
\* it is below 65536 when a turn starts, so no turn exceeds 655359 and the
\* 32 bits never wrap.  (port32bits & ~((1 << 16) - 1)) != 0 tests the bits
\* above the low sixteen.
\* the loop without the test of the bits above the low sixteen
RECURSIVE PortLoopNoRangeTest(_, _, _)
PortLoopNoRangeTest(text, i, port32bits) ==
    IF i > Len(text) THEN [ok |-> TRUE, port32bits |-> port32bits]
    ELSE IF text[i] < D0 \/ text[i] > D9
    THEN [ok |-> FALSE, port32bits |-> port32bits]
    ELSE PortLoopNoRangeTest(text, i + 1, port32bits * 10 + (text[i] - D0))

RECURSIVE PortLoop(_, _, _)
PortLoop(text, i, port32bits) ==
    IF i > Len(text) THEN [ok |-> TRUE, port32bits |-> port32bits]
    ELSE IF text[i] < D0 \/ text[i] > D9
    THEN [ok |-> FALSE, port32bits |-> port32bits]
    ELSE LET next == port32bits * 10 + (text[i] - D0)
         IN  IF next \div 65536 # 0
             THEN [ok |-> FALSE, port32bits |-> next]
             ELSE PortLoop(text, i + 1, next)

\* the resets without those of port and hasPort
ClearAuthorityKeepPort(impl) ==
    [impl EXCEPT !.userInfo = <<>>, !.host = <<>>]

\* the resets without host.clear()
ClearAuthorityKeepHost(impl) ==
    [impl EXCEPT !.userInfo = <<>>, !.port = 0, !.hasPort = FALSE]

\* the resets without userInfo.clear()
ClearAuthorityKeepUserInfo(impl) ==
    [impl EXCEPT !.host = <<>>, !.port = 0, !.hasPort = FALSE]

\* the four resets the method starts with
ClearAuthority(impl) ==
    [impl EXCEPT !.userInfo = <<>>, !.host = <<>>, !.port = 0, !.hasPort = FALSE]

\* the host taken with the delimiter's index as its length
HostUpToIndex(authority, nextIdx, portDelim) ==
    substr(authority, nextIdx, portDelim)

\* the host of an authority that has a port delimiter
HostBeforePort(authority, nextIdx, portDelim) ==
    substr(authority, nextIdx, portDelim - nextIdx)

\* ret is "true" or "false", or the exception that leaves the method
parseAuthorityComponents(impl, authority) ==
    LET cleared == ClearAuthority(impl)
        userinfoDelim == find(authority, <<AT>>, 0)
        candidate == substr(authority, 0, userinfoDelim)
        decoded == ExtractPctEncoded(candidate)
        withUser == IF userinfoDelim # npos
                    THEN [cleared EXCEPT !.userInfo = decoded.userInfo]
                    ELSE cleared
        nextIdx == IF userinfoDelim # npos THEN userinfoDelim + 1 ELSE 0
        portDelim == find(authority, <<COLON>>, nextIdx)
        loop == PortLoop(substr(authority, portDelim + 1, npos), 1, 0)
    IN  IF userinfoDelim # npos /\ ~UserInfoRegexMatch(candidate)
        THEN [ret |-> "false", impl |-> cleared]
        ELSE IF userinfoDelim # npos /\ decoded.status # "ok"
        THEN [ret |-> decoded.status, impl |-> cleared]
        ELSE IF portDelim # npos /\ ~loop.ok
        THEN [ret |-> "false", impl |-> withUser]
        ELSE IF portDelim # npos
        THEN [ret |-> "true",
              impl |-> [withUser EXCEPT
                           !.port = loop.port32bits % 65536,
                           !.hasPort = TRUE,
                           !.host = HostBeforePort(authority, nextIdx, portDelim)]]
        ELSE [ret |-> "true",
              impl |-> [withUser EXCEPT !.host = substr(authority, nextIdx, npos)]]

\* ------------------------------------------------------------------------
\* Uri::ParseFromString
\* ------------------------------------------------------------------------
\* the fragment taken, the rest not cut
parseFragmentKeepRest(rest) ==
    LET fragment == find(rest, <<HASH>>, 0)
    IN  IF fragment # npos
        THEN [fragment |-> substr(rest, fragment + 1, npos), rest |-> rest]
        ELSE [fragment |-> <<>>, rest |-> rest]

\* "Next, parse the fragment if there is one"
parseFragment(rest) ==
    LET fragment == find(rest, <<HASH>>, 0)
    IN  IF fragment # npos
        THEN [fragment |-> substr(rest, fragment + 1, npos),
              rest |-> substr(rest, 0, fragment)]
        ELSE [fragment |-> <<>>, rest |-> rest]

\* "Then, parse the query string"
parseQuery(rest) ==
    LET query == find(rest, <<QMARK>>, 0)
    IN  IF query # npos
        THEN [query |-> substr(rest, query + 1, npos),
              rest |-> substr(rest, 0, query)]
        ELSE [query |-> <<>>, rest |-> rest]

\* the loop that pushes what is left over only when it is not empty
RECURSIVE PathLoopSkipEmptyLast(_, _)
PathLoopSkipEmptyLast(path, rest) ==
    LET pathDelimiter == find(rest, <<SLASH>>, 0)
    IN  IF pathDelimiter = npos
        THEN IF rest = <<>> THEN path ELSE Append(path, rest)
        ELSE PathLoopSkipEmptyLast(Append(path, substr(rest, 0, pathDelimiter)),
                                   substr(rest, pathDelimiter + 1, npos))

\* the for (;;) loop of the path: path so far, rest still to split
RECURSIVE PathLoop(_, _)
PathLoop(path, rest) ==
    LET pathDelimiter == find(rest, <<SLASH>>, 0)
    IN  IF pathDelimiter = npos
        THEN Append(path, rest)
        ELSE PathLoop(Append(path, substr(rest, 0, pathDelimiter)),
                      substr(rest, pathDelimiter + 1, npos))

\* "Then, parse the path"
parsePath(rest) ==
    IF rest = <<SLASH>> THEN << <<>> >>
    ELSE IF rest # <<>> THEN PathLoop(<<>>, rest)
    ELSE <<>>

\* the call with the scheme stored before its validation is looked at
ParseFromStringSchemeStoredFirst(impl, uriString) ==
    LET sch == parseScheme(uriString)
        impl1 == [impl EXCEPT !.scheme =
                      IF sch.ok THEN sch.scheme
                      ELSE substr(uriString, 0, find(uriString, <<COLON>>, 0))]
        rest1 == substr(uriString, sch.nextIdx, npos)
        auth == parseAuthority(rest1)
        comp == parseAuthorityComponents(impl1, auth.authority)
        rest2 == substr(rest1, auth.nextIdx, npos)
        frag == parseFragment(rest2)
        qry == parseQuery(frag.rest)
        none == [uriString |-> uriString, restAfterScheme |-> <<>>,
                 authority |-> <<>>, restAfterAuthority |-> <<>>,
                 restPath |-> <<>>]
    IN  IF ~sch.ok
        THEN [ret |-> "false", impl |-> impl1, stages |-> <<"scheme">>,
              locals |-> none]
        ELSE IF comp.ret # "true"
        THEN [ret |-> comp.ret, impl |-> comp.impl,
              stages |-> <<"scheme", "authority">>,
              locals |-> [none EXCEPT !.restAfterScheme = rest1,
                                      !.authority = auth.authority]]
        ELSE [ret |-> "true",
              impl |-> [comp.impl EXCEPT !.fragment = frag.fragment,
                                         !.query = qry.query,
                                         !.path = parsePath(qry.rest)],
              stages |-> <<"scheme", "authority", "fragment", "query", "path">>,
              locals |-> [uriString |-> uriString,
                          restAfterScheme |-> rest1,
                          authority |-> auth.authority,
                          restAfterAuthority |-> rest2,
                          restPath |-> qry.rest]]

\* The whole call on an instance whose fields are impl.  Besides ret and
\* the fields it leaves, the result records the stages that ran and the
\* values the local `rest` and `authority` took on the way.
ParseFromString(impl, uriString) ==
    LET sch == parseScheme(uriString)
        impl1 == [impl EXCEPT !.scheme = sch.scheme]
        rest1 == substr(uriString, sch.nextIdx, npos)
        auth == parseAuthority(rest1)
        comp == parseAuthorityComponents(impl1, auth.authority)
        rest2 == substr(rest1, auth.nextIdx, npos)
        frag == parseFragment(rest2)
        qry == parseQuery(frag.rest)
        none == [uriString |-> uriString, restAfterScheme |-> <<>>,
                 authority |-> <<>>, restAfterAuthority |-> <<>>,
                 restPath |-> <<>>]
    IN  IF ~sch.ok
        THEN [ret |-> "false", impl |-> impl, stages |-> <<"scheme">>,
              locals |-> none]
        ELSE IF comp.ret # "true"
        THEN [ret |-> comp.ret, impl |-> comp.impl,
              stages |-> <<"scheme", "authority">>,
              locals |-> [none EXCEPT !.restAfterScheme = rest1,
                                      !.authority = auth.authority]]
        ELSE [ret |-> "true",
              impl |-> [comp.impl EXCEPT !.fragment = frag.fragment,
                                         !.query = qry.query,
                                         !.path = parsePath(qry.rest)],
              stages |-> <<"scheme", "authority", "fragment", "query", "path">>,
              locals |-> [uriString |-> uriString,
                          restAfterScheme |-> rest1,
                          authority |-> auth.authority,
                          restAfterAuthority |-> rest2,
                          restPath |-> qry.rest]]

\* ------------------------------------------------------------------------
\* Accessors
\* ------------------------------------------------------------------------
\* relative reference judged by the absence of a host
IsRelativeReferenceByHost(impl) == impl.host = <<>>

\* Uri::IsRelativeReference
IsRelativeReference(impl) == impl.scheme = <<>>

\* only the test of the empty path
ContainsRelativePathOnlyEmpty(impl) == impl.path = <<>>

\* Uri::ContainsRelativePath
ContainsRelativePath(impl) ==
    IF impl.path = <<>> THEN TRUE
    ELSE impl.path[1] # <<>>

\* ------------------------------------------------------------------------
\* The parser of src/src/Uri.cpp: its Impl has no userInfo, parseScheme
\* returns the scheme text, and the text before the '@' of an authority
\* is skipped.  parseAuthority, the port loop and the fragment, query and
\* path stages are those above, line for line.
\* ------------------------------------------------------------------------
Src_NewImpl ==
    [scheme |-> <<>>, host |-> <<>>, hasPort |-> FALSE, port |-> 0,
     path |-> <<>>, query |-> <<>>, fragment |-> <<>>]

\* the scheme text and the index where the rest starts
Src_parseScheme(uri) ==
    LET schemeEnd == find(uri, <<COLON>>, 0)
        dotSegment == find(uri, <<DOT, SLASH>>, 0)
    IN  IF schemeEnd = npos
        THEN [scheme |-> <<>>, nextIdx |-> 0]
        ELSE IF dotSegment # npos /\ dotSegment < schemeEnd
        THEN [scheme |-> <<>>, nextIdx |-> 0]
        ELSE [scheme |-> substr(uri, 0, schemeEnd), nextIdx |-> schemeEnd + 1]

Src_parseAuthorityComponents(impl, authority) ==
    LET cleared == [impl EXCEPT !.host = <<>>, !.port = 0, !.hasPort = FALSE]
        userinfoDelim == find(authority, <<AT>>, 0)
        nextIdx == IF userinfoDelim # npos THEN userinfoDelim + 1 ELSE 0
        portDelim == find(authority, <<COLON>>, nextIdx)
        loop == PortLoop(substr(authority, portDelim + 1, npos), 1, 0)
    IN  IF portDelim # npos /\ ~loop.ok
        THEN [ret |-> "false", impl |-> cleared]
        ELSE IF portDelim # npos
        THEN [ret |-> "true",
              impl |-> [cleared EXCEPT
                           !.port = loop.port32bits % 65536,
                           !.hasPort = TRUE,
                           !.host = substr(authority, nextIdx, portDelim - nextIdx)]]
        ELSE [ret |-> "true",
              impl |-> [cleared EXCEPT !.host = substr(authority, nextIdx, npos)]]

Src_ParseFromString(impl, uriString) ==
    LET sch == Src_parseScheme(uriString)
        impl1 == [impl EXCEPT !.scheme = sch.scheme]
        rest1 == substr(uriString, sch.nextIdx, npos)
        auth == parseAuthority(rest1)
        comp == Src_parseAuthorityComponents(impl1, auth.authority)
        rest2 == substr(rest1, auth.nextIdx, npos)
        frag == parseFragment(rest2)
        qry == parseQuery(frag.rest)
        none == [uriString |-> uriString, restAfterScheme |-> rest1,
                 authority |-> auth.authority, restAfterAuthority |-> <<>>,
                 restPath |-> <<>>]
    IN  IF comp.ret # "true"
        THEN [ret |-> comp.ret, impl |-> comp.impl,
              stages |-> <<"scheme", "authority">>, locals |-> none]
        ELSE [ret |-> "true",
              impl |-> [comp.impl EXCEPT !.fragment = frag.fragment,
                                         !.query = qry.query,
                                         !.path = parsePath(qry.rest)],
              stages |-> <<"scheme", "authority", "fragment", "query", "path">>,
              locals |-> [none EXCEPT !.restAfterAuthority = rest2,
                                      !.restPath = qry.rest]]

\* ------------------------------------------------------------------------
\* State: the fields of the instance, and the record of its last call (its
\* argument and outcome, the fields as they were before it, the stages it
\* ran and the values of its locals)
\* ------------------------------------------------------------------------
VARIABLES impl, call

vars == <<impl, call>>

NoCall ==
    [ret |-> "none", stages |-> <<>>, before |-> NewImpl,
     locals |-> [uriString |-> <<>>, restAfterScheme |-> <<>>,
                 authority |-> <<>>, restAfterAuthority |-> <<>>,
                 restPath |-> <<>>]]

\* Uri::Uri(): a fresh Impl, nothing parsed yet
Init ==
    /\ impl = NewImpl
    /\ call = NoCall

\* one call uri.ParseFromString(uriString) on the instance
Parse(uriString) ==
    LET r == ParseFromString(impl, uriString)
    IN  /\ impl' = r.impl
        /\ call' = [ret |-> r.ret, stages |-> r.stages, before |-> impl,
                    locals |-> r.locals]

\* ------------------------------------------------------------------------
\* One call, stage by stage.  call.ret = "running" while the call is
\* between two stages; call.stages are the stages it has run and
\* call.locals.rest is its local rest.
\* ------------------------------------------------------------------------
\* entry of ParseFromString: nothing is written yet
BeginCall(uriString) ==
    /\ call.ret # "running"
    /\ call' = [ret |-> "running", stages |-> <<>>, before |-> impl,
                locals |-> [uriString |-> uriString, rest |-> <<>>,
                            restAfterScheme |-> <<>>, authority |-> <<>>,
                            restAfterAuthority |-> <<>>, restPath |-> <<>>]]
    /\ UNCHANGED impl

\* "First parse the scheme"
SchemeStage ==
    /\ call.ret = "running"
    /\ call.stages = <<>>
    /\ LET sch == parseScheme(call.locals.uriString)
           rest == substr(call.locals.uriString, sch.nextIdx, npos)
       IN  IF ~sch.ok
           THEN /\ call' = [call EXCEPT !.ret = "false", !.stages = <<"scheme">>]
                /\ UNCHANGED impl
           ELSE /\ impl' = [impl EXCEPT !.scheme = sch.scheme]
                /\ call' = [call EXCEPT !.stages = <<"scheme">>,
                                        !.locals.rest = rest,
                                        !.locals.restAfterScheme = rest]

\* the stage that goes on to the fragment after a failure
AuthorityStageGoesOn ==
    /\ call.ret = "running"
    /\ call.stages = <<"scheme">>
    /\ LET auth == parseAuthority(call.locals.rest)
           comp == parseAuthorityComponents(impl, auth.authority)
           rest == substr(call.locals.rest, auth.nextIdx, npos)
       IN  /\ impl' = comp.impl
           /\ call' = [call EXCEPT !.stages = Append(@, "authority"),
                                   !.locals.authority = auth.authority,
                                   !.locals.rest = rest,
                                   !.locals.restAfterAuthority = rest]

\* "Next, parse the userinfo, host, and port number"
AuthorityStage ==
    /\ call.ret = "running"
    /\ call.stages = <<"scheme">>
    /\ LET auth == parseAuthority(call.locals.rest)
           comp == parseAuthorityComponents(impl, auth.authority)
           rest == substr(call.locals.rest, auth.nextIdx, npos)
       IN  /\ impl' = comp.impl
           /\ IF comp.ret # "true"
              THEN call' = [call EXCEPT !.ret = comp.ret,
                                        !.stages = Append(@, "authority"),
                                        !.locals.authority = auth.authority]
              ELSE call' = [call EXCEPT !.stages = Append(@, "authority"),
                                        !.locals.authority = auth.authority,
                                        !.locals.rest = rest,
                                        !.locals.restAfterAuthority = rest]

\* "Next, parse the fragment if there is one"
FragmentStage ==
    /\ call.ret = "running"
    /\ call.stages = <<"scheme", "authority">>
    /\ LET frag == parseFragment(call.locals.rest)
       IN  /\ impl' = [impl EXCEPT !.fragment = frag.fragment]
           /\ call' = [call EXCEPT !.stages = Append(@, "fragment"),
                                   !.locals.rest = frag.rest]

\* "Then, parse the query string"
QueryStage ==
    /\ call.ret = "running"
    /\ call.stages = <<"scheme", "authority", "fragment">>
    /\ LET qry == parseQuery(call.locals.rest)
       IN  /\ impl' = [impl EXCEPT !.query = qry.query]
           /\ call' = [call EXCEPT !.stages = Append(@, "query"),
                                   !.locals.rest = qry.rest,
                                   !.locals.restPath = qry.rest]

\* "Then, parse the path", and return true
PathStage ==
    /\ call.ret = "running"
    /\ call.stages = <<"scheme", "authority", "fragment", "query">>
    /\ impl' = [impl EXCEPT !.path = parsePath(call.locals.rest)]
    /\ call' = [call EXCEPT !.ret = "true", !.stages = Append(@, "path")]

\* Uri::Uri() of src/src/Uri.cpp
Src_Init ==
    /\ impl = Src_NewImpl
    /\ call = [NoCall EXCEPT !.before = Src_NewImpl]

\* one call uri.ParseFromString(uriString) of src/src/Uri.cpp
Src_Parse(uriString) ==
    LET r == Src_ParseFromString(impl, uriString)
    IN  /\ impl' = r.impl
        /\ call' = [ret |-> r.ret, stages |-> r.stages, before |-> impl,
                    locals |-> r.locals]

\* ------------------------------------------------------------------------
\* Inputs
\* ------------------------------------------------------------------------
\* all strings over an alphabet, up to a length
Strings(alphabet, n) == UNION { [1 .. k -> alphabet] : k \in 0 .. n }

\* A long-lived instance parses strings put together from these pieces
ReuseSchemes == { <<>>, <<LA, COLON>>, <<D0, COLON>> }
ReuseAuthorities ==
    { <<>>,
      <<SLASH, SLASH, LA, AT, LH, COLON, D1>>,
      <<SLASH, SLASH, LH, COLON, LZ>>,
      <<SLASH, SLASH, LBRACE, AT, LH>>,
      <<SLASH, SLASH, PCT, D2, D5, AT, LH>> }
ReusePaths == { <<>>, <<SLASH, LA>> }
ReuseTails == { <<>>, <<QMARK, LA, HASH, LZ>> }
ReuseInputs ==
    { s \o a \o p \o t : s \in ReuseSchemes, a \in ReuseAuthorities,
                         p \in ReusePaths, t \in ReuseTails }

\* every string up to MaxLen over the delimiters and a few other bytes
MaxLen == 5
GeneralAlphabet == {LA, D0, PLUS, COLON, SLASH, QMARK, HASH, AT}
GeneralInputs == Strings(GeneralAlphabet, MaxLen)

\* src/src/Uri.cpp: every string up to Src_MaxLen, with the '.' of its
\* parseScheme and the ':' of a port
Src_MaxLen == 4
Src_Alphabet == {LA, D0, DOT, COLON, SLASH, AT, HASH}
Src_Inputs == Strings(Src_Alphabet, Src_MaxLen)

\* "//" userinfo "@" and a host, with or without a port
MaxUserInfoLen == 5
UserInfoAlphabet == {PCT, D2, D5, D4, D1, PLUS, LBRACE}
UserInfoHosts == { <<LH>>, <<LH, COLON, LZ>> }
UserInfoInputs ==
    { <<SLASH, SLASH>> \o u \o <<AT>> \o h :
          u \in Strings(UserInfoAlphabet, MaxUserInfoLen), h \in UserInfoHosts }

\* "//" authority-start ":" port
MaxPortLen == 5
PortAlphabet == {D0, D3, D5, D6, MINUS, LA}
PortPrefixes ==
    { <<>>, <<LA, COLON, LZ, AT, LH>>, <<LBRACE, AT, LH>>, <<PCT, D2, D5, AT>> }
PortInputs ==
    { <<SLASH, SLASH>> \o a \o <<COLON>> \o p :
          a \in PortPrefixes, p \in Strings(PortAlphabet, MaxPortLen) }

\* ------------------------------------------------------------------------
\* Specifications
\* ------------------------------------------------------------------------
\* one instance, parsing again and again
Next == \E uriString \in ReuseInputs : Parse(uriString)

Spec == Init /\ [][Next]_vars

\* the first call on a fresh instance, for each family of inputs
NextGeneral == call.ret = "none" /\ \E uriString \in GeneralInputs : Parse(uriString)

SpecGeneral == Init /\ [][NextGeneral]_vars

NextUserInfo == call.ret = "none" /\ \E uriString \in UserInfoInputs : Parse(uriString)

SpecUserInfo == Init /\ [][NextUserInfo]_vars

NextPort == call.ret = "none" /\ \E uriString \in PortInputs : Parse(uriString)

SpecPort == Init /\ [][NextPort]_vars

\* the first call on a fresh instance of src/src/Uri.cpp, any string of
\* Src_Inputs
Src_Next == call.ret = "none" /\ \E uriString \in Src_Inputs : Src_Parse(uriString)

Src_Spec == Src_Init /\ [][Src_Next]_vars

\* one instance parses again and again, each call stage by stage
NextStages ==
    \/ \E uriString \in ReuseInputs : BeginCall(uriString)
    \/ SchemeStage
    \/ AuthorityStage
    \/ FragmentStage
    \/ QueryStage
    \/ PathStage

SpecStages == Init /\ [][NextStages]_vars

\* ------------------------------------------------------------------------
\* Properties
\* ------------------------------------------------------------------------
Range(s) == { s[i] : i \in 1 .. Len(s) }

\* positions (from 1) of a byte in a text, the first of them, and the text
\* before and after a position
Positions(s, c) == { i \in 1 .. Len(s) : s[i] = c }
FirstPos(s, c) == Min(Positions(s, c))
Before(s, i) == SubSeq(s, 1, i - 1)
After(s, i) == SubSeq(s, i + 1, Len(s))

Called == call.ret # "none"
Succeeded == call.ret = "true"
AuthorityStageRan == Len(call.stages) >= 2

\* C1: every call, from every state of the instance, ends by returning
\* true or false; no exception leaves ParseFromString.
C1_ReturnsBoolean == call.ret \in {"none", "true", "false"}

\* the userinfo grammar (pct-encoded / unreserved / sub-delims / ":")*
RECURSIVE IsUserInfoText(_)
IsUserInfoText(s) ==
    IF s = <<>> THEN TRUE
    ELSE IF s[1] = PCT
    THEN /\ Len(s) >= 3
         /\ IsHexDigit(s[2])
         /\ IsHexDigit(s[3])
         /\ IsUserInfoText(SubSeq(s, 4, Len(s)))
    ELSE /\ \/ IsAlpha(s[1])
            \/ IsDigit(s[1])
            \/ s[1] \in {45, 46, 95, 126}
            \/ s[1] \in {33, 36, 38, 39, 40, 41, 42, 43, 44, 59, 61}
            \/ s[1] = COLON
         /\ IsUserInfoText(Tail(s))

\* one pass from left to right over a text of the userinfo grammar: each
\* escape gives its byte, and the pass goes on after the escape
RECURSIVE SinglePassDecode(_)
SinglePassDecode(s) ==
    IF s = <<>> THEN <<>>
    ELSE IF s[1] = PCT
    THEN <<16 * HexValue(s[2]) + HexValue(s[3])>>
             \o SinglePassDecode(SubSeq(s, 4, Len(s)))
    ELSE <<s[1]>> \o SinglePassDecode(Tail(s))

HasUserInfo == AuthorityStageRan /\ AT \in Range(call.locals.authority)
UserInfoCandidate ==
    Before(call.locals.authority, FirstPos(call.locals.authority, AT))

\* C2: when the text before the first '@' matches the userinfo grammar,
\* the stored userInfo is that text decoded in one left-to-right pass (a
\* decoded byte is never read again as the start of an escape).
C2_SinglePassDecode ==
    (Succeeded /\ HasUserInfo /\ IsUserInfoText(UserInfoCandidate))
        => impl.userInfo = SinglePassDecode(UserInfoCandidate)

\* the scheme grammar ALPHA (ALPHA / DIGIT / "+" / "-" / ".")*
IsSchemeText(s) ==
    /\ Len(s) >= 1
    /\ IsAlpha(s[1])
    /\ \A i \in 2 .. Len(s) : IsAlpha(s[i]) \/ IsDigit(s[i]) \/ s[i] \in {43, 45, 46}

\* the input has a ':' and no '/' before its first ':'
HasSchemeCandidate(s) ==
    /\ COLON \in Range(s)
    /\ \A j \in 1 .. (FirstPos(s, COLON) - 1) : s[j] # SLASH
SchemeCandidate(s) == Before(s, FirstPos(s, COLON))

\* C3: for an input with a ':' and no '/' before its first ':', the
\* candidate scheme is the text before that ':'; the call returns false in
\* the scheme stage when the candidate does not match the scheme grammar,
\* and when the call succeeds the scheme is the candidate and the text
\* parsed after it is what follows the ':'.
C3_SchemeCandidate ==
    LET s == call.locals.uriString
    IN  (Called /\ HasSchemeCandidate(s)) =>
            /\ ~IsSchemeText(SchemeCandidate(s))
                   => call.ret = "false" /\ call.stages = <<"scheme">>
            /\ (IsSchemeText(SchemeCandidate(s)) /\ Succeeded)
                   => /\ impl.scheme = SchemeCandidate(s)
                      /\ call.locals.restAfterScheme = After(s, FirstPos(s, COLON))

\* a scheme of two bytes was taken and the rest parsed as a path
C3_Witness ==
    /\ Succeeded
    /\ call.locals.uriString = <<LA, PLUS, COLON, SLASH, LA>>
    /\ impl.scheme = <<LA, PLUS>>
    /\ impl.path = << <<>>, <<LA>> >>


\* the authority after its userinfo: the position of the first '@' (0 when
\* there is none), the ':' after it, and the port text after the first one
UserInfoEnd(a) == IF AT \in Range(a) THEN FirstPos(a, AT) ELSE 0
PortColons(a) == { i \in (UserInfoEnd(a) + 1) .. Len(a) : a[i] = COLON }
HasPortText(a) == PortColons(a) # {}
PortText(a) == After(a, Min(PortColons(a)))

RECURSIVE DecimalValue(_)
DecimalValue(p) ==
    IF p = <<>> THEN 0
    ELSE 10 * DecimalValue(SubSeq(p, 1, Len(p) - 1)) + (p[Len(p)] - 48)

\* only ASCII digits, and a decimal value of at most 65535
IsPortText(p) ==
    /\ \A i \in 1 .. Len(p) : IsDigit(p[i])
    /\ DecimalValue(p) <= 65535

\* C4: when the authority has an '@' (port errors aside), the call returns
\* false if the text before the first '@' does not match the userinfo
\* grammar, and accepts the input if it does.
C4_UserInfoValidation ==
    LET a == call.locals.authority
    IN  (Called /\ HasUserInfo /\ (HasPortText(a) => IsPortText(PortText(a))))
            => /\ ~IsUserInfoText(UserInfoCandidate) => call.ret = "false"
               /\ IsUserInfoText(UserInfoCandidate) => call.ret = "true"

UserInfoStagePassed(a) ==
    AT \in Range(a)
        => /\ UserInfoRegexMatch(Before(a, FirstPos(a, AT)))
           /\ ExtractPctEncoded(Before(a, FirstPos(a, AT))).status = "ok"

C6_HostAndPortDelimiter ==
    LET a == call.locals.authority
    IN  Succeeded
            => /\ impl.hasPort <=> HasPortText(a)
               /\ HasPortText(a)
                    => impl.host = SubSeq(a, UserInfoEnd(a) + 1, Min(PortColons(a)) - 1)
               /\ ~HasPortText(a) => impl.host = After(a, UserInfoEnd(a))

\* a userinfo that is a ':', a host, no port
C6_Witness ==
    /\ Succeeded
    /\ call.locals.authority = <<COLON, AT, LA>>
    /\ impl.userInfo = <<COLON>>
    /\ impl.host = <<LA>>
    /\ ~impl.hasPort

\* the text has a "//" and no '/' before it
HasAuthorityMark(r) ==
    /\ SLASH \in Range(r)
    /\ FirstPos(r, SLASH) < Len(r)
    /\ r[FirstPos(r, SLASH) + 1] = SLASH

\* from just after that "//" up to the next '/', '?' or '#', or to the end
AuthoritySpan(r) ==
    LET from == FirstPos(r, SLASH) + 2
        ends == { i \in from .. Len(r) : r[i] \in {SLASH, QMARK, HASH} }
    IN  SubSeq(r, from, IF ends = {} THEN Len(r) ELSE Min(ends) - 1)

\* C7: when the text after the scheme has a "//" with no '/' before it, the
\* authority is the text from just after the "//" up to the next '/', '?'
\* or '#' (or the end), so neither it nor the host holds one of the three.
C7_AuthoritySpan ==
    LET r == call.locals.restAfterScheme
    IN  (AuthorityStageRan /\ HasAuthorityMark(r))
            => /\ call.locals.authority = AuthoritySpan(r)
               /\ Range(call.locals.authority) \cap {SLASH, QMARK, HASH} = {}
               /\ Succeeded => Range(impl.host) \cap {SLASH, QMARK, HASH} = {}

\* C8: of the text R left after the authority, the fragment is what follows
\* the first '#' (empty without '#') and R is cut before it; of the cut
\* text, the query is what follows the first '?' (empty without '?') and
\* the path text is what precedes it.  The query holds no '#'.
C8_FragmentThenQuery ==
    LET R == call.locals.restAfterAuthority
        cut == IF HASH \in Range(R) THEN Before(R, FirstPos(R, HASH)) ELSE R
    IN  Succeeded
            => /\ impl.fragment =
                      IF HASH \in Range(R) THEN After(R, FirstPos(R, HASH)) ELSE <<>>
               /\ impl.query =
                      IF QMARK \in Range(cut) THEN After(cut, FirstPos(cut, QMARK)) ELSE <<>>
               /\ call.locals.restPath =
                      IF QMARK \in Range(cut) THEN Before(cut, FirstPos(cut, QMARK)) ELSE cut
               /\ HASH \notin Range(impl.query)

\* a '?' after the first '#' went to the fragment
C8_Witness ==
    /\ Succeeded
    /\ call.locals.restAfterAuthority = <<LA, QMARK, LA, HASH, QMARK>>
    /\ impl.query = <<LA>>
    /\ impl.fragment = <<QMARK>>

\* the segments, with a '/' between each two
RECURSIVE Join(_)
Join(segments) ==
    IF segments = <<>> THEN <<>>
    ELSE IF Len(segments) = 1 THEN segments[1]
    ELSE segments[1] \o <<SLASH>> \o Join(Tail(segments))

\* C9: the empty path text gives no segment, "/" gives the one segment "",
\* and every other path text gives one segment more than it has '/', none
\* holding a '/', which joined with '/' give the path text again.
C9_PathSegments ==
    LET P == call.locals.restPath
    IN  Succeeded
            => IF P = <<>> THEN impl.path = <<>>
               ELSE IF P = <<SLASH>> THEN impl.path = << <<>> >>
               ELSE /\ Len(impl.path) = Cardinality(Positions(P, SLASH)) + 1
                    /\ \A k \in 1 .. Len(impl.path) : SLASH \notin Range(impl.path[k])
                    /\ Join(impl.path) = P

\* "/a/" gave the segments "", "a", ""
C9_Witness ==
    /\ Succeeded
    /\ call.locals.restPath = <<SLASH, LA, SLASH>>
    /\ impl.path = << <<>>, <<LA>>, <<>> >>

\* C10: a call that returns true leaves every field as a fresh instance
\* has it after parsing the same string, whatever the instance parsed
\* before; without an authority, userInfo and host are empty and hasPort
\* is false.
C10_NoCarryOver ==
    Succeeded
        => /\ impl = ParseFromString(NewImpl, call.locals.uriString).impl
           /\ call.locals.authority = <<>>
                => impl.userInfo = <<>> /\ impl.host = <<>> /\ ~impl.hasPort

\* a string without authority parsed after one with userinfo, host and port
C10_Witness ==
    /\ Succeeded
    /\ call.before.userInfo # <<>>
    /\ call.before.host # <<>>
    /\ call.before.hasPort
    /\ call.locals.uriString = <<SLASH, LA>>
    /\ impl.userInfo = <<>>
    /\ impl.host = <<>>
    /\ ~impl.hasPort


\* what a fresh instance holds after the same call
FreshResult == ParseFromString(NewImpl, call.locals.uriString).impl

\* C11 as first stated: every call, failed ones too, resets all fields
\* before it derives anything, so after any call the fields are those a
\* fresh instance has after the same call.
C11_AllFieldsReset == Called => impl = FreshResult

\* C11: a call resets and re-derives the fields of the stages it runs, and
\* only those: scheme, userInfo, host, hasPort and port once it is past the
\* scheme stage, path, query and fragment once it is past the authority
\* stage; the other fields keep what they held before the call.  So only
\* after a successful call does no field hold a value of an earlier call.
C11_ResetPerStage ==
    Called
        => /\ IF AuthorityStageRan
              THEN /\ impl.scheme = FreshResult.scheme
                   /\ impl.userInfo = FreshResult.userInfo
                   /\ impl.host = FreshResult.host
                   /\ impl.hasPort = FreshResult.hasPort
                   /\ impl.port = FreshResult.port
              ELSE /\ impl.scheme = call.before.scheme
                   /\ impl.userInfo = call.before.userInfo
                   /\ impl.host = call.before.host
                   /\ impl.hasPort = call.before.hasPort
                   /\ impl.port = call.before.port
           /\ IF Succeeded
              THEN /\ impl.path = FreshResult.path
                   /\ impl.query = FreshResult.query
                   /\ impl.fragment = FreshResult.fragment
              ELSE /\ impl.path = call.before.path
                   /\ impl.query = call.before.query
                   /\ impl.fragment = call.before.fragment

\* a call failed on its port after a call that left host, path, query and
\* fragment: the host is reset, the other three are those of the earlier call
C11_Witness ==
    /\ call.ret = "false"
    /\ AuthorityStageRan
    /\ call.before.host # <<>>
    /\ impl.host = <<>>
    /\ impl.path = << <<>>, <<LA>> >>
    /\ impl.query = <<LA>>
    /\ impl.fragment = <<LZ>>
    /\ FreshResult.path = <<>>

\* the input has no ':' before any '/'
NoColonBeforeSlash(s) ==
    \/ COLON \notin Range(s)
    \/ /\ SLASH \in Range(s)
       /\ FirstPos(s, SLASH) < FirstPos(s, COLON)

\* the path text, "?" and the query, "#" and the fragment, put together
Recomposed(s) ==
    call.locals.restPath
        \o (IF QMARK \in Range(IF HASH \in Range(s) THEN Before(s, FirstPos(s, HASH)) ELSE s)
            THEN <<QMARK>> \o impl.query ELSE <<>>)
        \o (IF HASH \in Range(s) THEN <<HASH>> \o impl.fragment ELSE <<>>)

\* C12 as first stated: an input with no ':' before any '/' gives no
\* scheme, and the whole input is path, query and fragment.
C12_AllIsPathQueryFragment ==
    LET s == call.locals.uriString
    IN  (Called /\ NoColonBeforeSlash(s))
            => /\ impl.scheme = <<>>
               /\ Recomposed(s) = s

\* C12: an input with no ':' before any '/' gives no scheme, and the whole
\* input goes on to the authority stage; when it has no "//" that no '/'
\* precedes, the call succeeds and the whole input is path, query and
\* fragment.
C12_NoSchemeTaken ==
    LET s == call.locals.uriString
    IN  (Called /\ NoColonBeforeSlash(s))
            => /\ impl.scheme = <<>>
               /\ AuthorityStageRan
               /\ call.locals.restAfterScheme = s
               /\ ~HasAuthorityMark(s)
                    => /\ Succeeded
                       /\ call.locals.authority = <<>>
                       /\ Recomposed(s) = s
                       /\ call.locals.restPath # <<SLASH>>
                            => Join(impl.path) = call.locals.restPath

\* a ':' after a '/' stayed in the path
C12_Witness ==
    /\ Succeeded
    /\ call.locals.uriString = <<LA, SLASH, LA, COLON, D0>>
    /\ impl.scheme = <<>>
    /\ impl.path = << <<LA>>, <<LA, COLON, D0>> >>

\* C13: ContainsRelativePath() is false exactly when the path has a first
\* segment and that segment is empty; after a successful parse that is
\* exactly when the path text begins with '/'.
C13_RelativePath ==
    /\ ~ContainsRelativePath(impl) <=> (Len(impl.path) >= 1 /\ impl.path[1] = <<>>)
    /\ Succeeded
         => (~ContainsRelativePath(impl)
                <=> (call.locals.restPath # <<>> /\ call.locals.restPath[1] = SLASH))

\* scheme, authority and the path "/": an absolute path
C13_Witness ==
    /\ Succeeded
    /\ call.locals.uriString = <<LA, COLON, SLASH, SLASH, SLASH>>
    /\ impl.scheme = <<LA>>
    /\ impl.path = << <<>> >>
    /\ ~ContainsRelativePath(impl)

\* C14: IsRelativeReference() is true exactly when the stored scheme is
\* empty, with or without an authority; after a successful parse it is
\* false exactly for the inputs from which a scheme was taken (those with a
\* ':' that no '/' precedes).
C14_RelativeReference ==
    /\ IsRelativeReference(impl) <=> impl.scheme = <<>>
    /\ Succeeded
         => (IsRelativeReference(impl) <=> ~HasSchemeCandidate(call.locals.uriString))

\* a reference with an authority and no scheme is relative
C14_Witness ==
    /\ Succeeded
    /\ call.locals.authority # <<>>
    /\ impl.host # <<>>
    /\ impl.scheme = <<>>
    /\ call.before.scheme # <<>>
    /\ IsRelativeReference(impl)

\* the scheme of an input: the text before its first ':' when no '/'
\* precedes that ':', else none
SchemeOf(s) == IF HasSchemeCandidate(s) THEN SchemeCandidate(s) ELSE <<>>

\* C15: after a call that returned false in the authority stage, the scheme
\* is that of the failing input, host, hasPort and port are cleared, and
\* path, query and fragment are what they were before the call.
C15_AuthorityFailureFrame ==
    (call.ret = "false" /\ AuthorityStageRan)
        => /\ impl.scheme = SchemeOf(call.locals.uriString)
           /\ impl.host = <<>>
           /\ ~impl.hasPort
           /\ impl.port = 0
           /\ impl.path = call.before.path
           /\ impl.query = call.before.query
           /\ impl.fragment = call.before.fragment

\* a bad port after a parse without scheme that left a port and a path
C15_Witness ==
    /\ call.ret = "false"
    /\ AuthorityStageRan
    /\ call.before.scheme = <<>>
    /\ call.before.hasPort
    /\ call.before.path # <<>>
    /\ call.locals.uriString = <<LA, COLON, SLASH, SLASH, LH, COLON, LZ>>
    /\ impl.scheme = <<LA>>
    /\ impl.path = call.before.path


\* C17: in the parser of src/src/Uri.cpp, after any ParseFromString call
\* the stored scheme is empty or matches ALPHA (ALPHA / DIGIT / '+' / '-' /
\* '.')*.
C17_SchemeValidated ==
    Called => (impl.scheme = <<>> \/ IsSchemeText(impl.scheme))

\* C18: a call that returns false because the candidate scheme does not
\* match the scheme grammar modifies no field: all eight are as they were
\* before the call.
C18_SchemeFailureFrame ==
    LET s == call.locals.uriString
    IN  (call.ret = "false" /\ HasSchemeCandidate(s) /\ ~IsSchemeText(SchemeCandidate(s)))
            => /\ call.stages = <<"scheme">>
               /\ impl = call.before

\* a digit as scheme, after a parse that left scheme, userinfo, host, port,
\* path, query and fragment
C18_Witness ==
    /\ call.ret = "false"
    /\ call.locals.uriString = <<D0, COLON, SLASH, LA>>
    /\ call.before.scheme = <<LA>>
    /\ call.before.userInfo = <<LA>>
    /\ call.before.host = <<LH>>
    /\ call.before.hasPort
    /\ call.before.path = << <<>>, <<LA>> >>
    /\ call.before.query = <<LA>>
    /\ call.before.fragment = <<LZ>>
    /\ impl = call.before

\* C19: the authority stage loses no text: a successful parse of an input
\* with a '#' has as fragment the text after the first '#' of the input,
\* and an authority is taken only when the text after the scheme starts
\* with "//".
C19_NoTextLost ==
    LET s == call.locals.uriString
        r == call.locals.restAfterScheme
    IN  Succeeded
            => /\ HASH \in Range(s) => impl.fragment = After(s, FirstPos(s, HASH))
               /\ call.locals.restAfterAuthority # r
                    => (Len(r) >= 2 /\ r[1] = SLASH /\ r[2] = SLASH)

\* the input has a ':', and a '?' or '#' before its first ':'
ColonOnlyInQueryOrFragment(s) ==
    /\ COLON \in Range(s)
    /\ \E i \in 1 .. (FirstPos(s, COLON) - 1) : s[i] \in {QMARK, HASH}

\* C20: an input whose first ':' comes after a '?' or '#' parses with
\* success and an empty scheme, and the ':' stays in its query or fragment.
C20_ColonAfterQueryOrFragment ==
    LET s == call.locals.uriString
    IN  (Called /\ ColonOnlyInQueryOrFragment(s))
            => /\ Succeeded
               /\ impl.scheme = <<>>
               /\ COLON \in (Range(impl.query) \cup Range(impl.fragment))


StageOrder == <<"scheme", "authority", "fragment", "query", "path">>
Running == call.ret = "running"

\* a call that has ended left what ParseFromString leaves in one step
StagesComposeToCall ==
    (Called /\ ~Running)
        => LET r == ParseFromString(call.before, call.locals.uriString)
           IN  /\ impl = r.impl
               /\ call.ret = r.ret
               /\ call.stages = r.stages
               /\ \A f \in DOMAIN r.locals : call.locals[f] = r.locals[f]

\* the fields a stage may write
StageFields(stage) ==
    CASE stage = "scheme" -> {"scheme"}
      [] stage = "authority" -> {"userInfo", "host", "hasPort", "port"}
      [] stage = "fragment" -> {"fragment"}
      [] stage = "query" -> {"query"}
      [] stage = "path" -> {"path"}

\* the stages run so far are the first ones of the fixed order; a call
\* that returned false ended in the scheme or the authority stage; an
\* invalid scheme, userinfo or port has ended the call with false in its
\* stage
StagesSoFar ==
    LET s == call.locals.uriString
        a == call.locals.authority
    IN  /\ Len(call.stages) <= Len(StageOrder)
        /\ call.stages = SubSeq(StageOrder, 1, Len(call.stages))
        /\ call.ret = "true" => call.stages = StageOrder
        /\ call.ret = "false" => Len(call.stages) \in {1, 2}
        /\ (Len(call.stages) >= 1 /\ HasSchemeCandidate(s)
                /\ ~IsSchemeText(SchemeCandidate(s)))
              => (call.ret = "false" /\ call.stages = <<"scheme">>)
        /\ (HasUserInfo /\ ~IsUserInfoText(UserInfoCandidate))
              => (call.ret = "false" /\ call.stages = <<"scheme", "authority">>)
        /\ (AuthorityStageRan /\ UserInfoStagePassed(a) /\ HasPortText(a)
                /\ ~IsPortText(PortText(a)))
              => (call.ret = "false" /\ call.stages = <<"scheme", "authority">>)

\* a step of a running call runs the one next stage of the order, which
\* writes its own fields only; after a return the only step is the entry
\* of another call, which writes nothing
StageStep ==
    /\ Running
          => /\ call'.stages = Append(call.stages, StageOrder[Len(call.stages) + 1])
             /\ call'.before = call.before
             /\ call'.locals.uriString = call.locals.uriString
             /\ \A f \in DOMAIN impl \ StageFields(StageOrder[Len(call.stages) + 1]) :
                    impl'[f] = impl[f]
    /\ ~Running
          => /\ call'.ret = "running"
             /\ call'.stages = <<>>
             /\ impl' = impl

\* C16: within one ParseFromString call the stages run in the order
\* scheme, authority, fragment, query, path, each at most once and never
\* again; once a stage fails (invalid scheme, invalid userinfo, invalid
\* port) the call returns false at once and no later stage runs or writes
\* a field.
C16_StagesInOrder == [][StageStep]_vars /\ []StagesSoFar

\* an invalid port ended a call in the authority stage, after a call that
\* left a path, a query and a fragment, which are still there
C16_Witness ==
    /\ call.ret = "false"
    /\ call.stages = <<"scheme", "authority">>
    /\ HasPortText(call.locals.authority)
    /\ call.before.path # <<>>
    /\ impl.path = call.before.path
    /\ impl.query = <<LA>>
    /\ impl.fragment = <<LZ>>

====
